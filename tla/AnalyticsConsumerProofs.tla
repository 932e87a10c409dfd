---------------------- MODULE AnalyticsConsumerProofs ----------------------
(***************************************************************************)
(* The safety of analytics-service's consumer, for any partitions, any     *)
(* contents, any batch size and any number of sessions and faults; and     *)
(* that it keeps ConsumerFeed's promise.                                   *)
(*                                                                         *)
(* What matters is where a message is between its arrival and its mark:    *)
(* everything before next[p] is in the batch, or stored, or has been given *)
(* up; and the batch is in order, so that a mark passes its head only.     *)
(***************************************************************************)
EXTENDS AnalyticsConsumer, SequenceTheorems, TLAPS

-----------------------------------------------------------------------------
(* The inductive invariant, partition by partition.                        *)

Elements(s) == {s[i] : i \in 1 .. Len(s)}
Sorted(s) == \A i, j \in 1 .. Len(s) : i < j => s[i] < s[j]

\* Message n of partition p has its row, or is one of those given up.
Done(p, n) ==
  \/ rows[<<p, n>>] > 0
  \/ <<p, n>> \in dropped
  \/ \E k \in n .. Length - 1 : KindOf(p, k) = "malformed" /\ <<p, k>> \in acked

\* The batch holds messages received already, in order, that can be decoded;
\* the offsets follow one another.
BatchInv(p) ==
  /\ claim[p] = "mark" => pending[p] # << >>
  /\ Sorted(pending[p])
  /\ \A n \in Batch(p) : n < next[p] /\ KindOf(p, n) # "malformed"
  /\ committed[p] <= marked[p]
  /\ marked[p] <= next[p]

\* What is about to be marked, or has been, is stored.
StoredInv(p) ==
  /\ claim[p] = "mark" => \A n \in Batch(p) : rows[<<p, n>>] > 0
  /\ \A n \in Offsets :
       <<p, n>> \in acked => KindOf(p, n) = "malformed" \/ rows[<<p, n>>] > 0

\* What this session has not inserted yet: what it has not received, and its
\* batch until the insert.
Fresh(p, n) ==
  /\ mode # "down"
  /\ n < next[p] => claim[p] \in {"loop", "insert"} /\ n \in Batch(p)

\* The session has not added its row to what is fresh.
RowsInv(p) ==
  \A n \in Offsets :
    /\ rows[<<p, n>>] <= session
    /\ Fresh(p, n) => rows[<<p, n>>] < session

BehindInv(p) ==
  (\A n \in Offsets : KindOf(p, n) # "malformed") =>
    \A n \in Batch(p) : marked[p] <= n

\* No message is passed over: those received are in the batch or done, and
\* those the mark has passed are done.
DoneInv(p) ==
  /\ claim[p] # "returned" => \A n \in 0 .. next[p] - 1 : n \in Batch(p) \/ Done(p, n)
  /\ \A n \in 0 .. marked[p] - 1 : Done(p, n)

PartitionInv(p) == BatchInv(p) /\ StoredInv(p) /\ RowsInv(p) /\ BehindInv(p) /\ DoneInv(p)

AnalyticsInv ==
  /\ TypeOK
  /\ mode # "consuming" => session < MaxSessions
  /\ \A p \in Partitions : PartitionInv(p)

-----------------------------------------------------------------------------
(* Batches.                                                                *)

\* The empty batch.
LEMMA EmptyBatch == Elements(<< >>) = {} /\ Sorted(<< >>) /\ Len(<< >>) = 0
BY DEF Elements, Sorted

\* A message received after all those of the batch goes to its end.
LEMMA AppendToBatch ==
  ASSUME NEW s \in Seq(Offsets), Sorted(s), NEW n \in Offsets,
         \A k \in Elements(s) : k < n
  PROVE  /\ Append(s, n) \in Seq(Offsets)
         /\ Append(s, n) # << >>
         /\ Len(Append(s, n)) = Len(s) + 1
         /\ Sorted(Append(s, n))
         /\ Elements(Append(s, n)) = Elements(s) \union {n}
<1> DEFINE t == Append(s, n)
<1>1. /\ t \in Seq(Offsets) /\ t # << >>
      /\ Len(s) \in Nat /\ Len(t) = Len(s) + 1
      /\ \A i \in 1 .. Len(s) : t[i] = s[i]
      /\ t[Len(s) + 1] = n
  OBVIOUS
<1> HIDE DEF t
<1>2. \A i \in 1 .. Len(s) : s[i] \in Elements(s)
  BY DEF Elements
<1>3. \A i \in 1 .. Len(t) : i \in 1 .. Len(s) \/ i = Len(s) + 1
  BY <1>1
<1>4. Sorted(t)
  <2> SUFFICES ASSUME NEW i \in 1 .. Len(t), NEW j \in 1 .. Len(t), i < j
               PROVE  t[i] < t[j]
    BY DEF Sorted
  <2>1. i \in 1 .. Len(s)
    BY <1>1
  <2>2. CASE j \in 1 .. Len(s)
    BY <1>1, <2>1, <2>2 DEF Sorted
  <2>3. CASE j = Len(s) + 1
    BY <1>1, <1>2, <2>1, <2>3
  <2>4. QED
    BY <1>3, <2>2, <2>3
<1>5. Elements(t) = Elements(s) \union {n}
  <2>1. \A i \in 1 .. Len(t) : t[i] \in Elements(s) \union {n}
    BY <1>1, <1>2, <1>3
  <2>2. \A i \in 1 .. Len(s) : s[i] \in Elements(t)
    BY <1>1 DEF Elements
  <2>3. n \in Elements(t)
    BY <1>1 DEF Elements
  <2>4. QED
    BY <2>1, <2>2, <2>3 DEF Elements
<1>6. QED
  BY <1>1, <1>4, <1>5 DEF t

\* The head of a batch in order is its smallest message.
LEMMA TailOfBatch ==
  ASSUME NEW s \in Seq(Offsets), Sorted(s), s # << >>
  PROVE  /\ Head(s) \in Offsets /\ Head(s) \in Elements(s)
         /\ Tail(s) \in Seq(Offsets)
         /\ Len(s) \in Nat \ {0} /\ Len(Tail(s)) = Len(s) - 1
         /\ Tail(s) = << >> <=> Len(s) = 1
         /\ Sorted(Tail(s))
         /\ Elements(s) = Elements(Tail(s)) \union {Head(s)}
         /\ \A k \in Elements(Tail(s)) : Head(s) < k
<1> DEFINE t == Tail(s)
<1>1. /\ Head(s) \in Offsets /\ Head(s) = s[1]
      /\ t \in Seq(Offsets)
      /\ Len(s) \in Nat /\ Len(s) >= 1 /\ Len(t) = Len(s) - 1
      /\ \A i \in 1 .. Len(t) : t[i] = s[i + 1]
  OBVIOUS
<1> HIDE DEF t
<1>2. t = << >> <=> Len(s) = 1
  <2>1. t = << >> <=> Len(t) = 0
    BY <1>1, EmptySeq
  <2>2. QED
    BY <1>1, <2>1
<1>3. \A i \in 1 .. Len(s) : s[i] \in Elements(s)
  BY DEF Elements
<1>4. \A i \in 1 .. Len(t) : i + 1 \in 1 .. Len(s) /\ 1 < i + 1
  BY <1>1
<1>5. Sorted(t)
  <2> SUFFICES ASSUME NEW i \in 1 .. Len(t), NEW j \in 1 .. Len(t), i < j
               PROVE  t[i] < t[j]
    BY DEF Sorted
  <2>1. i + 1 \in 1 .. Len(s) /\ j + 1 \in 1 .. Len(s) /\ i + 1 < j + 1
    BY <1>4
  <2>2. s[i + 1] < s[j + 1]
    BY <2>1 DEF Sorted
  <2>3. QED
    BY <1>1, <2>2
<1>6. \A k \in Elements(t) : Head(s) < k
  <2> SUFFICES ASSUME NEW i \in 1 .. Len(t)
               PROVE  Head(s) < t[i]
    BY DEF Elements
  <2>1. s[1] < s[i + 1]
    BY <1>1, <1>4 DEF Sorted
  <2>2. QED
    BY <1>1, <2>1
<1>7. Elements(s) = Elements(t) \union {Head(s)}
  <2>1. \A i \in 1 .. Len(t) : t[i] \in Elements(s)
    BY <1>1, <1>3, <1>4
  <2>2. \A i \in 1 .. Len(s) : s[i] \in Elements(t) \union {Head(s)}
    <3> TAKE i \in 1 .. Len(s)
    <3>1. CASE i = 1
      BY <1>1, <3>1
    <3>2. CASE i # 1
      <4>1. i - 1 \in 1 .. Len(t) /\ (i - 1) + 1 = i
        BY <1>1, <3>2
      <4>2. t[i - 1] = s[i]
        BY <1>1, <4>1
      <4>3. QED
        BY <4>1, <4>2 DEF Elements
    <3>3. QED
      BY <3>1, <3>2
  <2>3. Elements(t) \subseteq Elements(s)
    BY <2>1 DEF Elements
  <2>4. Elements(s) \subseteq Elements(t) \union {Head(s)}
    BY <2>2 DEF Elements
  <2>5. Head(s) \in Elements(s)
    BY <1>1, <1>3
  <2>6. QED
    BY <2>3, <2>4, <2>5
<1>8. Len(s) \in Nat \ {0} /\ Head(s) \in Elements(s)
  BY <1>1, <1>7
<1>9. QED
  BY <1>1, <1>2, <1>5, <1>6, <1>7, <1>8 DEF t

\* The batch of the model is the elements of its sequence.
LEMMA BatchElements == \A p \in Partitions : Batch(p) = Elements(pending[p])
BY DEF Batch, Elements

-----------------------------------------------------------------------------
(* What a step leaves alone.                                               *)

\* What is done stays done.
LEMMA DoneStays ==
  ASSUME NEW p \in Partitions, NEW n \in Offsets, Done(p, n),
         rows \in [Messages -> Nat], rows' \in [Messages -> Nat],
         rows[<<p, n>>] <= rows'[<<p, n>>],
         acked \subseteq acked', dropped \subseteq dropped'
  PROVE  Done(p, n)'
<1>1. <<p, n>> \in Messages
  BY DEF Messages
<1>2. QED
  BY <1>1 DEF Done

\* A step that touches neither a partition's claim nor its rows keeps its
\* part of the invariant; a commit of its mark does too.
LEMMA PartitionKept ==
  ASSUME NEW p \in Partitions, PartitionInv(p), TypeOK,
         mode' # "down" => mode # "down",
         session' = session,
         claim'[p] = claim[p], next'[p] = next[p], pending'[p] = pending[p],
         marked'[p] = marked[p],
         committed'[p] = committed[p] \/ committed'[p] = marked[p],
         rows' \in [Messages -> Nat],
         \A n \in Offsets : rows'[<<p, n>>] = rows[<<p, n>>],
         acked \subseteq acked', dropped \subseteq dropped',
         \A n \in Offsets : <<p, n>> \in acked' => <<p, n>> \in acked
  PROVE  PartitionInv(p)'
<1>1. \A n \in Offsets : Done(p, n) => Done(p, n)'
  <2> TAKE n \in Offsets
  <2>1. rows \in [Messages -> Nat] /\ <<p, n>> \in Messages
    BY DEF TypeOK, Messages
  <2>2. rows[<<p, n>>] <= rows'[<<p, n>>]
    BY <2>1
  <2>3. QED
    BY <2>1, <2>2, DoneStays
<1>2. Batch(p)' = Batch(p)
  BY DEF Batch
<1>3. Batch(p) \subseteq Offsets
  BY DEF TypeOK, Batch
<1>4. BatchInv(p)'
  <2>1. marked[p] <= marked[p]
    BY AnalyticsAssumption DEF TypeOK
  <2>2. QED
    BY <1>2, <2>1 DEF PartitionInv, BatchInv
<1>5. StoredInv(p)'
  BY <1>2, <1>3 DEF PartitionInv, StoredInv
<1>6. RowsInv(p)'
  BY <1>2 DEF PartitionInv, RowsInv, Fresh
<1>7. BehindInv(p)'
  BY <1>2 DEF PartitionInv, BehindInv
<1>8. DoneInv(p)'
  <2>1. next[p] \in 0 .. Length /\ marked[p] \in 0 .. Length /\ Length \in Nat
    BY AnalyticsAssumption DEF TypeOK
  <2>2. \A n \in 0 .. next[p] - 1 : n \in Offsets
    BY <2>1 DEF Offsets
  <2>3. \A n \in 0 .. marked[p] - 1 : n \in Offsets
    BY <2>1 DEF Offsets
  <2>4. QED
    BY <1>1, <1>2, <2>2, <2>3 DEF PartitionInv, DoneInv
<1>9. QED
  BY <1>4, <1>5, <1>6, <1>7, <1>8 DEF PartitionInv

\* What a step of p's claim leaves alone.
Elsewhere(p) ==
  /\ UNCHANGED <<mode, session>>
  /\ acked \subseteq acked' /\ dropped \subseteq dropped'
  /\ \A q \in Partitions \ {p} :
       /\ claim'[q] = claim[q] /\ next'[q] = next[q] /\ pending'[q] = pending[q]
       /\ marked'[q] = marked[q] /\ committed'[q] = committed[q]
       /\ \A n \in Offsets : rows'[<<q, n>>] = rows[<<q, n>>]
       /\ \A n \in Offsets : <<q, n>> \in acked' => <<q, n>> \in acked

\* A step of one claim is about its partition only.
LEMMA ClaimStepKeepsOthers ==
  ASSUME AnalyticsInv, NEW p \in Partitions, TypeOK', PartitionInv(p)', Elsewhere(p)
  PROVE  AnalyticsInv'
<1>1. \A q \in Partitions \ {p} : PartitionInv(q)'
  <2> TAKE q \in Partitions \ {p}
  <2>1. PartitionInv(q) /\ TypeOK /\ rows' \in [Messages -> Nat]
    BY DEF AnalyticsInv, TypeOK
  <2>2. /\ claim'[q] = claim[q] /\ next'[q] = next[q] /\ pending'[q] = pending[q]
        /\ marked'[q] = marked[q] /\ committed'[q] = committed[q]
        /\ \A n \in Offsets : rows'[<<q, n>>] = rows[<<q, n>>]
        /\ \A n \in Offsets : <<q, n>> \in acked' => <<q, n>> \in acked
        /\ mode' = mode /\ session' = session
        /\ acked \subseteq acked' /\ dropped \subseteq dropped'
    BY DEF Elsewhere
  <2>3. QED
    BY <2>1, <2>2, PartitionKept
<1>2. QED
  BY <1>1 DEF AnalyticsInv, Elsewhere

\* Types of what a claim works on.
LEMMA ClaimTypes ==
  ASSUME TypeOK, NEW p \in Partitions
  PROVE  /\ Length \in Nat
         /\ claim[p] \in {"loop", "insert", "mark", "returned"}
         /\ next[p] \in 0 .. Length /\ next[p] \in Nat
         /\ pending[p] \in Seq(Offsets)
         /\ Len(pending[p]) \in Nat
         /\ marked[p] \in 0 .. Length
         /\ committed[p] \in 0 .. Length
         /\ session \in Nat
         /\ Batch(p) \subseteq Offsets /\ Offsets \subseteq Nat
         /\ \A n \in Offsets : <<p, n>> \in Messages /\ rows[<<p, n>>] \in Nat /\ n \in Nat
BY AnalyticsAssumption DEF TypeOK, Batch, Messages, Offsets

-----------------------------------------------------------------------------
(* ConsumeClaim.                                                           *)

\* A malformed message is marked at once: whatever is before it is explained
\* by that mark from now on.
LEMMA SkipKeepsInv ==
  ASSUME AnalyticsInv, NEW p \in Partitions, Skip(p)
  PROVE  AnalyticsInv'
<1> DEFINE n == next[p]
<1>1. TypeOK /\ PartitionInv(p)
  BY DEF AnalyticsInv
<1>2. /\ claim[p] = "loop" /\ n < Length /\ KindOf(p, n) = "malformed"
      /\ marked' = [marked EXCEPT ![p] = IF @ < n + 1 THEN n + 1 ELSE @]
      /\ acked' = acked \union {<<p, n>>}
      /\ next' = [next EXCEPT ![p] = @ + 1]
      /\ UNCHANGED <<mode, session, claim, closing, pending, committed, rows, dropped, faults>>
  BY DEF Skip, MarkMessage
<1>3. /\ Length \in Nat /\ n \in 0 .. Length /\ marked[p] \in 0 .. Length
      /\ committed[p] \in 0 .. Length
      /\ Batch(p) \subseteq Offsets /\ Offsets \subseteq Nat /\ session \in Nat /\ n \in Nat
      /\ \A k \in Offsets : <<p, k>> \in Messages /\ rows[<<p, k>>] \in Nat /\ k \in Nat
  BY <1>1, ClaimTypes
<1>4. n \in Offsets /\ n + 1 \in 0 .. Length
  BY <1>2, <1>3 DEF Offsets
<1>5. /\ next'[p] = n + 1
      /\ marked'[p] = (IF marked[p] < n + 1 THEN n + 1 ELSE marked[p])
      /\ marked[p] <= n
  BY <1>1, <1>2 DEF TypeOK, PartitionInv, BatchInv
<1>6. marked'[p] = n + 1
  BY <1>3, <1>5
<1>7. TypeOK'
  <2>1. next' \in [Partitions -> 0 .. Length] /\ marked' \in [Partitions -> 0 .. Length]
    BY <1>1, <1>2, <1>4 DEF TypeOK
  <2>2. acked' \subseteq Messages
    BY <1>1, <1>2, <1>3, <1>4 DEF TypeOK
  <2>3. QED
    BY <1>1, <1>2, <2>1, <2>2 DEF TypeOK
<1>8. Elsewhere(p)
  BY <1>1, <1>2 DEF Elsewhere, TypeOK
<1>9. Batch(p)' = Batch(p) /\ pending'[p] = pending[p] /\ claim'[p] = "loop"
  BY <1>2 DEF Batch
<1>10. BatchInv(p)'
  <2>1. \A k \in Batch(p) : k < n /\ KindOf(p, k) # "malformed"
    BY <1>1 DEF PartitionInv, BatchInv
  <2>2. \A k \in Batch(p) : k < n + 1
    <3> TAKE k \in Batch(p)
    <3>1. k \in Nat /\ k < n
      BY <2>1, <1>3
    <3>2. QED
      BY <3>1, <1>3
  <2>3. committed'[p] <= marked'[p]
    BY <1>1, <1>2, <1>3, <1>5, <1>6 DEF PartitionInv, BatchInv
  <2>4. QED
    BY <1>1, <1>3, <1>4, <1>5, <1>6, <1>9, <2>1, <2>2, <2>3 DEF PartitionInv, BatchInv
<1>11. StoredInv(p)'
  BY <1>1, <1>2, <1>9 DEF PartitionInv, StoredInv
<1>12. RowsInv(p)'
  <2>1. ASSUME NEW k \in Offsets, Fresh(p, k)' PROVE Fresh(p, k)
    <3>1. k \in Nat /\ (k < n => k < n + 1)
      BY <1>3
    <3>2. QED
      BY <2>1, <3>1, <1>2, <1>5, <1>9 DEF Fresh
  <2>2. QED
    BY <1>1, <1>2, <2>1 DEF PartitionInv, RowsInv
<1>13. BehindInv(p)'
  BY <1>2, <1>4 DEF BehindInv
<1>14. DoneInv(p)'
  <2>1. \A k \in 0 .. n : Done(p, k)'
    <3> TAKE k \in 0 .. n
    <3>1. n \in k .. Length - 1
      BY <1>3, <1>4 DEF Offsets
    <3>2. QED
      BY <3>1, <1>2 DEF Done
  <2>2. \A k \in 0 .. (n + 1) - 1 : k \in 0 .. n
    BY <1>3
  <2>3. QED
    BY <1>5, <1>6, <2>1, <2>2 DEF DoneInv
<1>15. QED
  BY <1>7, <1>8, <1>10, <1>11, <1>12, <1>13, <1>14, ClaimStepKeepsOthers DEF PartitionInv

\* A message joins the batch; it is received from now on, and fresh as before.
LEMMA CollectKeepsInv ==
  ASSUME AnalyticsInv, NEW p \in Partitions, Collect(p)
  PROVE  AnalyticsInv'
<1> DEFINE n == next[p]
<1>1. TypeOK /\ PartitionInv(p)
  BY DEF AnalyticsInv
<1>2. /\ claim[p] = "loop" /\ n < Length /\ KindOf(p, n) # "malformed"
      /\ pending' = [pending EXCEPT ![p] = Append(@, n)]
      /\ claim' = [claim EXCEPT ![p] =
           IF Len(pending[p]) + 1 >= BatchMaxSize THEN "insert" ELSE "loop"]
      /\ next' = [next EXCEPT ![p] = @ + 1]
      /\ UNCHANGED <<mode, session, closing, marked, committed, rows, acked, dropped, faults>>
  BY DEF Collect, historyVars
<1>3. /\ Length \in Nat /\ n \in 0 .. Length /\ marked[p] \in 0 .. Length
      /\ committed[p] \in 0 .. Length /\ pending[p] \in Seq(Offsets) /\ Len(pending[p]) \in Nat
      /\ Batch(p) \subseteq Offsets /\ Offsets \subseteq Nat /\ session \in Nat /\ n \in Nat
      /\ \A k \in Offsets : <<p, k>> \in Messages /\ rows[<<p, k>>] \in Nat /\ k \in Nat
  BY <1>1, ClaimTypes
<1>4. n \in Offsets /\ n + 1 \in 0 .. Length
  BY <1>2, <1>3 DEF Offsets
<1>5. /\ Sorted(pending[p]) /\ \A k \in Batch(p) : k < n /\ KindOf(p, k) # "malformed"
      /\ marked[p] <= n /\ committed[p] <= marked[p]
  BY <1>1 DEF PartitionInv, BatchInv
<1>6. /\ next'[p] = n + 1
      /\ pending'[p] = Append(pending[p], n)
      /\ claim'[p] = IF Len(pending[p]) + 1 >= BatchMaxSize THEN "insert" ELSE "loop"
  BY <1>1, <1>2 DEF TypeOK
<1>7. /\ pending'[p] \in Seq(Offsets) /\ pending'[p] # << >>
      /\ Len(pending'[p]) = Len(pending[p]) + 1
      /\ Sorted(pending'[p])
      /\ Batch(p)' = Batch(p) \union {n}
  <2>1. Batch(p) = Elements(pending[p]) /\ Batch(p)' = Elements(pending'[p])
    BY DEF Batch, Elements
  <2>2. \A k \in Elements(pending[p]) : k < n
    BY <1>5, <2>1
  <2>3. QED
    BY <1>3, <1>4, <1>5, <1>6, <2>1, <2>2, AppendToBatch
<1>8. TypeOK'
  <2>1. /\ next' \in [Partitions -> 0 .. Length]
        /\ claim' \in [Partitions -> {"loop", "insert", "mark", "returned"}]
        /\ pending' \in [Partitions -> Seq(Offsets)]
    BY <1>1, <1>2, <1>4, <1>6, <1>7 DEF TypeOK
  <2>2. ASSUME NEW q \in Partitions
        PROVE  /\ Len(pending'[q]) <= BatchMaxSize
               /\ claim'[q] = "loop" => Len(pending'[q]) < BatchMaxSize
               /\ claim'[q] = "insert" => pending'[q] # << >>
    <3>1. CASE q = p
      <4>1. Len(pending[p]) < BatchMaxSize
        BY <1>1, <1>2 DEF TypeOK
      <4>2. QED
        BY <3>1, <4>1, <1>3, <1>6, <1>7, AnalyticsAssumption
    <3>2. CASE q # p
      BY <1>1, <1>2, <3>2 DEF TypeOK
    <3>3. QED
      BY <3>1, <3>2
  <2>3. QED
    BY <1>1, <1>2, <2>1, <2>2 DEF TypeOK
<1>9. Elsewhere(p)
  BY <1>1, <1>2 DEF Elsewhere, TypeOK
<1>10. BatchInv(p)'
  <2>1. \A k \in Batch(p)' : k < n + 1 /\ KindOf(p, k) # "malformed"
    <3> TAKE k \in Batch(p)'
    <3>1. k \in Nat /\ (k \in Batch(p) \/ k = n)
      BY <1>3, <1>7
    <3>2. k < n + 1
      BY <3>1, <1>3, <1>5
    <3>3. KindOf(p, k) # "malformed"
      BY <3>1, <1>2, <1>5
    <3>4. QED
      BY <3>2, <3>3
  <2>2. QED
    BY <1>2, <1>3, <1>5, <1>6, <1>7, <2>1 DEF BatchInv
<1>11. StoredInv(p)'
  BY <1>1, <1>2, <1>6 DEF PartitionInv, StoredInv
<1>12. RowsInv(p)'
  <2>1. ASSUME NEW k \in Offsets, Fresh(p, k)' PROVE Fresh(p, k)
    <3>1. k \in Nat /\ (k < n => k < n + 1 /\ k # n)
      BY <1>3
    <3>2. QED
      BY <2>1, <3>1, <1>2, <1>6, <1>7 DEF Fresh
  <2>2. QED
    BY <1>1, <1>2, <2>1 DEF PartitionInv, RowsInv
<1>13. BehindInv(p)'
  BY <1>1, <1>2, <1>5, <1>7 DEF PartitionInv, BehindInv
<1>14. DoneInv(p)'
  <2>1. \A k \in Offsets : Done(p, k)' = Done(p, k)
    BY <1>2 DEF Done
  <2>2. \A k \in 0 .. marked'[p] - 1 : Done(p, k)'
    BY <1>1, <1>2, <1>3, <2>1 DEF PartitionInv, DoneInv, Offsets
  <2>3. \A k \in 0 .. n - 1 : k \in Batch(p) \/ Done(p, k)
    BY <1>1, <1>2 DEF PartitionInv, DoneInv
  <2>4. \A k \in 0 .. next'[p] - 1 : k \in Offsets /\ (k \in 0 .. n - 1 \/ k = n)
    BY <1>3, <1>4, <1>6 DEF Offsets
  <2>5. QED
    BY <1>7, <2>1, <2>2, <2>3, <2>4 DEF DoneInv
<1>15. QED
  BY <1>8, <1>9, <1>10, <1>11, <1>12, <1>13, <1>14, ClaimStepKeepsOthers DEF PartitionInv

\* Claims that only move to or from the loop with their batch: the ticker, and
\* the closed channel.
LEMMA FlushBeginsKeepsInv ==
  ASSUME AnalyticsInv, NEW p \in Partitions, Tick(p) \/ ReturnOnClosed(p)
  PROVE  AnalyticsInv'
<1>1. TypeOK /\ PartitionInv(p)
  BY DEF AnalyticsInv
<1>2. /\ claim[p] = "loop"
      /\ \/ claim' = [claim EXCEPT ![p] = "insert"] /\ pending[p] # << >>
         \/ claim' = [claim EXCEPT ![p] = "returned"] /\ pending[p] = << >>
      /\ closing' \subseteq Partitions
      /\ UNCHANGED <<mode, session, next, pending, marked, committed, rows, acked, dropped, faults>>
  BY <1>1 DEF Tick, ReturnOnClosed, historyVars, TypeOK
<1>3. claim'[p] \in {"insert", "returned"} /\ (claim'[p] = "insert" => pending[p] # << >>)
  BY <1>1, <1>2 DEF TypeOK
<1>4. TypeOK'
  <2>1. claim' \in [Partitions -> {"loop", "insert", "mark", "returned"}]
    BY <1>1, <1>2 DEF TypeOK
  <2>2. \A q \in Partitions :
          /\ claim'[q] = "loop" => claim[q] = "loop"
          /\ claim'[q] = "insert" => claim[q] = "insert" \/ pending[q] # << >>
    BY <1>1, <1>2 DEF TypeOK
  <2>3. QED
    BY <1>1, <1>2, <2>1, <2>2 DEF TypeOK
<1>5. Elsewhere(p)
  BY <1>1, <1>2 DEF Elsewhere, TypeOK
<1>6. BatchInv(p)' /\ StoredInv(p)' /\ BehindInv(p)'
  BY <1>1, <1>2, <1>3 DEF PartitionInv, BatchInv, StoredInv, BehindInv, Batch
<1>7. RowsInv(p)'
  BY <1>1, <1>2, <1>3 DEF PartitionInv, RowsInv, Fresh, Batch
<1>8. DoneInv(p)'
  BY <1>1, <1>2, <1>3 DEF PartitionInv, DoneInv, Done, Batch
<1>9. QED
  BY <1>4, <1>5, <1>6, <1>7, <1>8, ClaimStepKeepsOthers DEF PartitionInv

\* A session that is over forgets the batch: its messages are neither stored
\* nor marked.
LEMMA ReturnOnDoneKeepsInv ==
  ASSUME AnalyticsInv, NEW p \in Partitions, ReturnOnDone(p)
  PROVE  AnalyticsInv'
<1>1. TypeOK /\ PartitionInv(p)
  BY DEF AnalyticsInv
<1>2. /\ claim[p] = "loop"
      /\ claim' = [claim EXCEPT ![p] = "returned"]
      /\ pending' = [pending EXCEPT ![p] = << >>]
      /\ UNCHANGED <<mode, session, closing, next, marked, committed, rows, acked, dropped, faults>>
  BY DEF ReturnOnDone, historyVars
<1>3. claim'[p] = "returned" /\ pending'[p] = << >>
  BY <1>1, <1>2 DEF TypeOK
<1>4. Batch(p)' = {}
  BY <1>3, EmptyBatch DEF Batch, Elements
<1>5. TypeOK'
  <2>1. /\ claim' \in [Partitions -> {"loop", "insert", "mark", "returned"}]
        /\ pending' \in [Partitions -> Seq(Offsets)]
    BY <1>1, <1>2 DEF TypeOK
  <2>2. ASSUME NEW q \in Partitions
        PROVE  /\ Len(pending'[q]) <= BatchMaxSize
               /\ claim'[q] = "loop" => Len(pending'[q]) < BatchMaxSize
               /\ claim'[q] = "insert" => pending'[q] # << >>
    <3>1. CASE q = p
      BY <3>1, <1>3, EmptyBatch, AnalyticsAssumption
    <3>2. CASE q # p
      BY <1>1, <1>2, <3>2 DEF TypeOK
    <3>3. QED
      BY <3>1, <3>2
  <2>3. QED
    BY <1>1, <1>2, <2>1, <2>2 DEF TypeOK
<1>6. Elsewhere(p)
  BY <1>1, <1>2 DEF Elsewhere, TypeOK
<1>7. BatchInv(p)' /\ StoredInv(p)' /\ BehindInv(p)'
  BY <1>1, <1>2, <1>3, <1>4, EmptyBatch DEF PartitionInv, BatchInv, StoredInv, BehindInv
<1>8. RowsInv(p)'
  BY <1>1, <1>2, <1>3, <1>4 DEF PartitionInv, RowsInv, Fresh
<1>9. DoneInv(p)'
  BY <1>1, <1>2, <1>3 DEF PartitionInv, DoneInv, Done
<1>10. QED
  BY <1>5, <1>6, <1>7, <1>8, <1>9, ClaimStepKeepsOthers DEF PartitionInv

-----------------------------------------------------------------------------
(* flush.                                                                  *)

\* Rows are only ever added, one for each message.
LEMMA AddRows ==
  ASSUME TypeOK, NEW S,
         rows' = [m \in Messages |-> IF m \in S THEN rows[m] + 1 ELSE rows[m]]
  PROVE  /\ rows' \in [Messages -> Nat]
         /\ \A m \in Messages : rows[m] <= rows'[m] /\ rows'[m] <= rows[m] + 1
         /\ \A m \in Messages : m \in S => rows'[m] = rows[m] + 1 /\ rows'[m] > 0
         /\ \A m \in Messages : m \notin S => rows'[m] = rows[m]
BY DEF TypeOK

\* A batch's rows are of its partition, and of its messages.
LEMMA GoodRowsOf ==
  ASSUME NEW p, NEW q, NEW n
  PROVE  <<q, n>> \in GoodRows(p) <=> q = p /\ n \in Batch(p) /\ KindOf(p, n) = "row"
BY DEF GoodRows

\* The insert that succeeds: the whole batch is stored, and was not before.
LEMMA InsertKeepsInv ==
  ASSUME AnalyticsInv, NEW p \in Partitions, Live, Insert(p)
  PROVE  AnalyticsInv'
<1>1. TypeOK /\ PartitionInv(p)
  BY DEF AnalyticsInv
<1>2. /\ claim[p] = "insert" /\ mode # "down"
      /\ \A n \in Batch(p) : KindOf(p, n) = "row"
      /\ rows' = [m \in Messages |-> IF m \in GoodRows(p) THEN rows[m] + 1 ELSE rows[m]]
      /\ claim' = [claim EXCEPT ![p] = "mark"]
      /\ UNCHANGED <<mode, session, closing, next, pending, marked, committed,
                     acked, dropped, faults>>
  BY DEF Insert, Live, historyVars
<1>3. /\ Length \in Nat /\ next[p] \in 0 .. Length /\ next[p] \in Nat
      /\ marked[p] \in 0 .. Length
      /\ Batch(p) \subseteq Offsets /\ Offsets \subseteq Nat /\ session \in Nat
      /\ \A k \in Offsets : <<p, k>> \in Messages /\ rows[<<p, k>>] \in Nat /\ k \in Nat
  BY <1>1, ClaimTypes
<1>4. /\ rows' \in [Messages -> Nat]
      /\ \A m \in Messages : rows[m] <= rows'[m] /\ rows'[m] <= rows[m] + 1
      /\ \A m \in Messages : m \in GoodRows(p) => rows'[m] > 0
      /\ \A m \in Messages : m \notin GoodRows(p) => rows'[m] = rows[m]
  BY <1>1, <1>2, AddRows
<1>5. Batch(p)' = Batch(p) /\ pending'[p] = pending[p] /\ claim'[p] = "mark"
  BY <1>1, <1>2 DEF Batch, TypeOK
<1>6. \A n \in Batch(p) : rows'[<<p, n>>] > 0
  BY <1>2, <1>3, <1>4, GoodRowsOf
<1>7. \A n \in Offsets \ Batch(p) : rows'[<<p, n>>] = rows[<<p, n>>]
  BY <1>3, <1>4, GoodRowsOf
<1>8. \A n \in Offsets : rows[<<p, n>>] > 0 => rows'[<<p, n>>] > 0
  <2> TAKE n \in Offsets
  <2>1. rows[<<p, n>>] <= rows'[<<p, n>>] /\ rows'[<<p, n>>] \in Nat /\ rows[<<p, n>>] \in Nat
    BY <1>3, <1>4
  <2>2. QED
    BY <2>1
<1>9. TypeOK'
  BY <1>1, <1>2, <1>4 DEF TypeOK
<1>10. Elsewhere(p)
  <2>1. \A q \in Partitions \ {p} : \A n \in Offsets :
          <<q, n>> \in Messages /\ <<q, n>> \notin GoodRows(p)
    BY GoodRowsOf DEF Messages
  <2>2. QED
    BY <1>1, <1>2, <1>4, <2>1 DEF Elsewhere, TypeOK
<1>11. BatchInv(p)' /\ BehindInv(p)'
  <2>1. pending[p] # << >>
    BY <1>1, <1>2 DEF TypeOK
  <2>2. QED
    BY <1>1, <1>2, <1>5, <2>1 DEF PartitionInv, BatchInv, BehindInv
<1>12. StoredInv(p)'
  BY <1>1, <1>2, <1>5, <1>6, <1>8 DEF PartitionInv, StoredInv
<1>13. RowsInv(p)'
  <2> SUFFICES ASSUME NEW n \in Offsets
               PROVE  /\ rows'[<<p, n>>] <= session
                      /\ Fresh(p, n)' => rows'[<<p, n>>] < session
    BY <1>2 DEF RowsInv
  <2>1. CASE n \in Batch(p)
    <3>1. rows[<<p, n>>] < session
      BY <1>1, <1>2, <2>1 DEF PartitionInv, RowsInv, Fresh
    <3>2. rows'[<<p, n>>] <= session
      BY <3>1, <1>3, <1>4
    <3>3. n < next[p]
      BY <1>1, <2>1 DEF PartitionInv, BatchInv
    <3>4. ~Fresh(p, n)'
      BY <3>3, <1>2, <1>5 DEF Fresh
    <3>5. QED
      BY <3>2, <3>4
  <2>2. CASE n \notin Batch(p)
    <3>1. Fresh(p, n)' => Fresh(p, n)
      BY <1>2, <1>5 DEF Fresh
    <3>2. QED
      BY <1>1, <1>7, <2>2, <3>1 DEF PartitionInv, RowsInv
  <2>3. QED
    BY <2>1, <2>2
<1>14. DoneInv(p)'
  <2>1. \A n \in Offsets : Done(p, n) => Done(p, n)'
    BY <1>2, <1>8 DEF Done
  <2>2. \A n \in 0 .. next[p] - 1 : n \in Offsets
    BY <1>3 DEF Offsets
  <2>3. \A n \in 0 .. marked[p] - 1 : n \in Offsets
    BY <1>3 DEF Offsets
  <2>4. QED
    BY <1>1, <1>2, <1>5, <2>1, <2>2, <2>3 DEF PartitionInv, DoneInv
<1>15. QED
  BY <1>9, <1>10, <1>11, <1>12, <1>13, <1>14, ClaimStepKeepsOthers DEF PartitionInv

\* The mark of the head of a stored batch: what is before it is done, and the
\* rest of the batch comes after it.
LEMMA MarkKeepsInv ==
  ASSUME AnalyticsInv, NEW p \in Partitions, Mark(p)
  PROVE  AnalyticsInv'
<1>0. PICK h : h = Head(pending[p])
  OBVIOUS
<1>1. TypeOK /\ PartitionInv(p)
  BY DEF AnalyticsInv
<1>2. /\ claim[p] = "mark"
      /\ marked' = [marked EXCEPT ![p] = IF @ < h + 1 THEN h + 1 ELSE @]
      /\ acked' = acked \union {<<p, h>>}
      /\ pending' = [pending EXCEPT ![p] = Tail(@)]
      /\ claim' = [claim EXCEPT ![p] = IF Len(pending[p]) = 1 THEN AfterFlush(p) ELSE "mark"]
      /\ UNCHANGED <<mode, session, closing, next, committed, rows, dropped, faults>>
  BY <1>0 DEF Mark, MarkMessage
<1>3. /\ Length \in Nat /\ next[p] \in 0 .. Length /\ next[p] \in Nat
      /\ marked[p] \in 0 .. Length /\ committed[p] \in 0 .. Length
      /\ pending[p] \in Seq(Offsets) /\ Len(pending[p]) \in Nat
      /\ Batch(p) \subseteq Offsets /\ Offsets \subseteq Nat /\ session \in Nat
      /\ \A k \in Offsets : <<p, k>> \in Messages /\ rows[<<p, k>>] \in Nat /\ k \in Nat
  BY <1>1, ClaimTypes
<1>4. /\ pending[p] # << >> /\ Sorted(pending[p])
      /\ \A k \in Batch(p) : k < next[p] /\ KindOf(p, k) # "malformed"
      /\ \A k \in Batch(p) : rows[<<p, k>>] > 0
      /\ committed[p] <= marked[p] /\ marked[p] <= next[p]
  BY <1>1, <1>2 DEF PartitionInv, BatchInv, StoredInv
<1>5. /\ pending'[p] = Tail(pending[p])
      /\ marked'[p] = IF marked[p] < h + 1 THEN h + 1 ELSE marked[p]
      /\ claim'[p] = IF Len(pending[p]) = 1 THEN AfterFlush(p) ELSE "mark"
  BY <1>1, <1>2 DEF TypeOK
<1>6. Batch(p) = Elements(pending[p]) /\ Batch(p)' = Elements(pending'[p])
  BY DEF Batch, Elements
<1>7. /\ h \in Offsets /\ h \in Batch(p)
      /\ pending'[p] \in Seq(Offsets)
      /\ Len(pending[p]) \in Nat \ {0} /\ Len(pending'[p]) = Len(pending[p]) - 1
      /\ pending'[p] = << >> <=> Len(pending[p]) = 1
      /\ Sorted(pending'[p])
      /\ Batch(p) = Batch(p)' \union {h}
      /\ \A k \in Batch(p)' : h < k
  <2>1. PICK s \in Seq(Offsets) : s = pending[p] /\ Sorted(s) /\ s # << >>
    BY <1>3, <1>4
  <2>2. /\ h = Head(s) /\ pending'[p] = Tail(s)
        /\ Batch(p) = Elements(s) /\ Batch(p)' = Elements(Tail(s))
    BY <1>0, <1>5, <1>6, <2>1
  <2>3. /\ Head(s) \in Offsets /\ Head(s) \in Elements(s)
        /\ Tail(s) \in Seq(Offsets)
        /\ Len(s) \in Nat \ {0} /\ Len(Tail(s)) = Len(s) - 1
        /\ Tail(s) = << >> <=> Len(s) = 1
    BY <2>1, TailOfBatch
  <2>4. Sorted(Tail(s)) /\ Elements(s) = Elements(Tail(s)) \union {Head(s)}
    BY <2>1, TailOfBatch
  <2>5. \A k \in Elements(Tail(s)) : Head(s) < k
    BY <2>1, TailOfBatch
  <2>6. QED
    BY <2>1, <2>2, <2>3, <2>4, <2>5
<1>8. h \in Nat /\ h + 1 \in 0 .. Length /\ h < next[p] /\ <<p, h>> \in Messages
  BY <1>3, <1>4, <1>7 DEF Offsets
<1>9. /\ marked'[p] \in 0 .. Length
      /\ marked[p] <= marked'[p] /\ h + 1 <= marked'[p] /\ marked'[p] <= next[p]
      /\ marked'[p] = marked[p] \/ marked'[p] = h + 1
  BY <1>3, <1>4, <1>5, <1>8
<1>10. TypeOK'
  <2>1. /\ claim' \in [Partitions -> {"loop", "insert", "mark", "returned"}]
        /\ pending' \in [Partitions -> Seq(Offsets)]
        /\ marked' \in [Partitions -> 0 .. Length]
        /\ acked' \subseteq Messages
    BY <1>1, <1>2, <1>5, <1>7, <1>8, <1>9 DEF TypeOK, AfterFlush
  <2>2. ASSUME NEW q \in Partitions
        PROVE  /\ Len(pending'[q]) <= BatchMaxSize
               /\ claim'[q] = "loop" => Len(pending'[q]) < BatchMaxSize
               /\ claim'[q] = "insert" => pending'[q] # << >>
    <3>1. CASE q = p
      <4>1. Len(pending[p]) <= BatchMaxSize
        BY <1>1 DEF TypeOK
      <4>2. Len(pending'[p]) < BatchMaxSize
        BY <4>1, <1>7, AnalyticsAssumption
      <4>3. claim'[p] # "insert"
        BY <1>5 DEF AfterFlush
      <4>4. QED
        BY <3>1, <4>2, <4>3, <1>7, AnalyticsAssumption
    <3>2. CASE q # p
      BY <1>1, <1>2, <3>2 DEF TypeOK
    <3>3. QED
      BY <3>1, <3>2
  <2>3. QED
    BY <1>1, <1>2, <2>1, <2>2 DEF TypeOK
<1>11. Elsewhere(p)
  BY <1>1, <1>2 DEF Elsewhere, TypeOK
<1>12. BatchInv(p)'
  <2>1. claim'[p] = "mark" => pending'[p] # << >>
    BY <1>5, <1>7 DEF AfterFlush
  <2>2. committed[p] <= marked'[p]
    BY <1>3, <1>4, <1>9
  <2>3. QED
    BY <1>2, <1>4, <1>7, <1>9, <2>1, <2>2 DEF BatchInv
<1>13. StoredInv(p)'
  BY <1>1, <1>2, <1>4, <1>7 DEF PartitionInv, StoredInv
<1>14. RowsInv(p)'
  <2>1. claim'[p] = "loop" => Batch(p)' = {}
    <3>1. Elements(<< >>) = {}
      BY EmptyBatch
    <3>2. QED
      BY <3>1, <1>5, <1>6, <1>7
  <2>2. claim'[p] # "insert"
    BY <1>5 DEF AfterFlush
  <2>3. \A n \in Offsets : Fresh(p, n)' => Fresh(p, n)
    BY <1>2, <2>1, <2>2 DEF Fresh
  <2>4. QED
    BY <1>1, <1>2, <2>3 DEF PartitionInv, RowsInv
<1>15. BehindInv(p)'
  <2> SUFFICES ASSUME \A n \in Offsets : KindOf(p, n) # "malformed", NEW k \in Batch(p)'
               PROVE  marked'[p] <= k
    BY DEF BehindInv
  <2>1. k \in Batch(p) /\ k \in Nat /\ h < k
    BY <1>3, <1>7
  <2>2. marked[p] <= k
    BY <2>1, <1>1 DEF PartitionInv, BehindInv
  <2>3. h + 1 <= k
    BY <1>8, <2>1
  <2>4. QED
    BY <1>9, <2>2, <2>3
<1>16. DoneInv(p)'
  <2>1. \A n \in Offsets : Done(p, n) => Done(p, n)'
    BY <1>2 DEF Done
  <2>2. Done(p, h)'
    <3>1. rows[<<p, h>>] > 0
      BY <1>4, <1>7
    <3>2. rows'[<<p, h>>] > 0
      BY <3>1, <1>2
    <3>3. QED
      BY <3>2 DEF Done
  <2>3. ASSUME NEW n \in 0 .. next[p] - 1
        PROVE  n \in Batch(p)' \/ Done(p, n)'
    <3>1. n \in Offsets
      BY <1>3 DEF Offsets
    <3>2. n \in Batch(p) \/ Done(p, n)
      BY <1>1, <1>2 DEF PartitionInv, DoneInv
    <3>3. CASE n \in Batch(p)
      <4>1. n \in Batch(p)' \/ n = h
        BY <3>3, <1>7
      <4>2. n = h => Done(p, n)'
        BY <2>2
      <4>3. QED
        BY <4>1, <4>2
    <3>4. QED
      BY <3>1, <3>2, <3>3, <2>1
  <2>4. ASSUME NEW n \in 0 .. marked'[p] - 1
        PROVE  Done(p, n)'
    <3>1. n \in Offsets /\ n \in Nat
      BY <1>9, <1>3 DEF Offsets
    <3>2. CASE n \in 0 .. marked[p] - 1
      BY <3>1, <3>2, <2>1, <1>1 DEF PartitionInv, DoneInv
    <3>3. CASE n \notin 0 .. marked[p] - 1
      <4>1. n \in 0 .. h /\ n \in 0 .. next[p] - 1
        BY <3>1, <3>3, <1>3, <1>8, <1>9
      <4>2. n \notin Batch(p)'
        BY <4>1, <1>7, <1>8
      <4>3. QED
        BY <4>1, <4>2, <2>3
    <3>4. QED
      BY <3>2, <3>3
  <2>5. QED
    BY <1>2, <2>3, <2>4 DEF DoneInv
<1>17. QED
  BY <1>10, <1>11, <1>12, <1>13, <1>14, <1>15, <1>16, ClaimStepKeepsOthers DEF PartitionInv

\* A batch given up, whatever of it was stored: all of it is in dropped, and
\* nothing of it is marked.
LEMMA DropBatchKeepsInv ==
  ASSUME AnalyticsInv, NEW p \in Partitions, Live, InsertFails(p) \/ InsertSkips(p)
  PROVE  AnalyticsInv'
<1>1. TypeOK /\ PartitionInv(p)
  BY DEF AnalyticsInv
<1>2. /\ claim[p] = "insert" /\ mode # "down"
      /\ dropped' = dropped \union {<<p, n>> : n \in Batch(p)}
      /\ pending' = [pending EXCEPT ![p] = << >>]
      /\ claim' = [claim EXCEPT ![p] = AfterFlush(p)]
      /\ faults' \in 0 .. MaxFaults
      /\ UNCHANGED <<mode, session, closing, next, marked, committed, acked>>
  <2>1. claim[p] = "insert" /\ DropBatch(p) /\ mode # "down"
    BY DEF InsertFails, InsertSkips, Live
  <2>2. faults' = faults \/ (faults < MaxFaults /\ faults' = faults + 1)
    <3>1. CASE InsertFails(p)
      BY <3>1 DEF InsertFails, FaultOrOver, Fault
    <3>2. CASE InsertSkips(p)
      BY <3>2 DEF InsertSkips
    <3>3. QED
      BY <3>1, <3>2
  <2>3. faults' \in 0 .. MaxFaults
    BY <1>1, <2>2, AnalyticsAssumption DEF TypeOK
  <2>4. QED
    BY <2>1, <2>3 DEF DropBatch
<1>3. PICK S : /\ S = {} \/ S = GoodRows(p)
               /\ rows' = [m \in Messages |-> IF m \in S THEN rows[m] + 1 ELSE rows[m]]
  BY DEF InsertFails, InsertSkips
<1>4. /\ Length \in Nat /\ next[p] \in 0 .. Length /\ next[p] \in Nat
      /\ marked[p] \in 0 .. Length
      /\ Batch(p) \subseteq Offsets /\ Offsets \subseteq Nat /\ session \in Nat
      /\ \A k \in Offsets : <<p, k>> \in Messages /\ rows[<<p, k>>] \in Nat /\ k \in Nat
  BY <1>1, ClaimTypes
<1>5. /\ rows' \in [Messages -> Nat]
      /\ \A m \in Messages : rows[m] <= rows'[m] /\ rows'[m] <= rows[m] + 1
      /\ \A m \in Messages : m \notin S => rows'[m] = rows[m]
  BY <1>1, <1>3, AddRows
<1>6. claim'[p] \in {"loop", "returned"} /\ pending'[p] = << >>
  BY <1>1, <1>2 DEF TypeOK, AfterFlush
<1>7. Batch(p)' = {}
  BY <1>6, EmptyBatch DEF Batch, Elements
<1>8. \A n \in Offsets \ Batch(p) : rows'[<<p, n>>] = rows[<<p, n>>]
  BY <1>3, <1>4, <1>5, GoodRowsOf
<1>9. \A n \in Offsets : rows[<<p, n>>] > 0 => rows'[<<p, n>>] > 0
  <2> TAKE n \in Offsets
  <2>1. rows[<<p, n>>] <= rows'[<<p, n>>] /\ rows'[<<p, n>>] \in Nat /\ rows[<<p, n>>] \in Nat
    BY <1>4, <1>5
  <2>2. QED
    BY <2>1
<1>10. TypeOK'
  <2>1. /\ claim' \in [Partitions -> {"loop", "insert", "mark", "returned"}]
        /\ pending' \in [Partitions -> Seq(Offsets)]
        /\ dropped' \subseteq Messages
    <3>1. << >> \in Seq(Offsets) /\ AfterFlush(p) \in {"loop", "returned"}
      BY DEF AfterFlush
    <3>2. claim' \in [Partitions -> {"loop", "insert", "mark", "returned"}]
      BY <1>1, <1>2, <3>1 DEF TypeOK
    <3>3. pending' \in [Partitions -> Seq(Offsets)]
      BY <1>1, <1>2, <3>1 DEF TypeOK
    <3>4. \A n \in Batch(p) : <<p, n>> \in Messages
      BY <1>4
    <3>5. dropped' \subseteq Messages
      BY <1>1, <1>2, <3>4 DEF TypeOK
    <3>6. QED
      BY <3>2, <3>3, <3>5
  <2>2. ASSUME NEW q \in Partitions
        PROVE  /\ Len(pending'[q]) <= BatchMaxSize
               /\ claim'[q] = "loop" => Len(pending'[q]) < BatchMaxSize
               /\ claim'[q] = "insert" => pending'[q] # << >>
    <3>1. CASE q = p
      BY <3>1, <1>6, EmptyBatch, AnalyticsAssumption
    <3>2. CASE q # p
      BY <1>1, <1>2, <3>2 DEF TypeOK
    <3>3. QED
      BY <3>1, <3>2
  <2>3. QED
    BY <1>1, <1>2, <1>5, <2>1, <2>2 DEF TypeOK
<1>11. Elsewhere(p)
  <2>1. ASSUME NEW q \in Partitions \ {p}, NEW n \in Offsets
        PROVE  <<q, n>> \in Messages /\ <<q, n>> \notin S
    <3>1. <<q, n>> \notin GoodRows(p)
      BY GoodRowsOf
    <3>2. QED
      BY <1>3, <3>1 DEF Messages
  <2>2. QED
    BY <1>1, <1>2, <1>5, <2>1 DEF Elsewhere, TypeOK
<1>12. BatchInv(p)' /\ BehindInv(p)'
  BY <1>1, <1>2, <1>6, <1>7, EmptyBatch DEF PartitionInv, BatchInv, BehindInv
<1>13. StoredInv(p)'
  BY <1>1, <1>2, <1>7, <1>9 DEF PartitionInv, StoredInv
<1>14. RowsInv(p)'
  <2> SUFFICES ASSUME NEW n \in Offsets
               PROVE  /\ rows'[<<p, n>>] <= session
                      /\ Fresh(p, n)' => rows'[<<p, n>>] < session
    BY <1>2 DEF RowsInv
  <2>1. CASE n \in Batch(p)
    <3>1. rows[<<p, n>>] < session
      BY <1>1, <1>2, <2>1 DEF PartitionInv, RowsInv, Fresh
    <3>2. rows'[<<p, n>>] <= rows[<<p, n>>] + 1 /\ rows'[<<p, n>>] \in Nat /\ rows[<<p, n>>] \in Nat
      BY <1>4, <1>5
    <3>3. rows'[<<p, n>>] <= session
      BY <3>1, <3>2, <1>4
    <3>4. n < next[p]
      BY <1>1, <2>1 DEF PartitionInv, BatchInv
    <3>5. ~Fresh(p, n)'
      BY <3>4, <1>2, <1>7 DEF Fresh
    <3>6. QED
      BY <3>3, <3>5
  <2>2. CASE n \notin Batch(p)
    <3>1. Fresh(p, n)' => Fresh(p, n)
      BY <1>2, <1>7 DEF Fresh
    <3>2. QED
      BY <1>1, <1>8, <2>2, <3>1 DEF PartitionInv, RowsInv
  <2>3. QED
    BY <2>1, <2>2
<1>15. DoneInv(p)'
  <2>1. \A n \in Offsets : Done(p, n) => Done(p, n)'
    BY <1>2, <1>9 DEF Done
  <2>2. \A n \in Batch(p) : Done(p, n)'
    BY <1>2 DEF Done
  <2>3. \A n \in 0 .. next[p] - 1 : n \in Offsets
    BY <1>4 DEF Offsets
  <2>4. \A n \in 0 .. marked[p] - 1 : n \in Offsets
    BY <1>4 DEF Offsets
  <2>5. \A n \in 0 .. next[p] - 1 : n \in Batch(p) \/ Done(p, n)
    BY <1>1, <1>2 DEF PartitionInv, DoneInv
  <2>6. \A n \in 0 .. next[p] - 1 : Done(p, n)'
    BY <2>1, <2>2, <2>3, <2>5
  <2>7. \A n \in 0 .. marked[p] - 1 : Done(p, n)'
    BY <1>1, <2>1, <2>4 DEF PartitionInv, DoneInv
  <2>8. QED
    BY <1>2, <2>6, <2>7 DEF DoneInv
<1>16. QED
  BY <1>10, <1>11, <1>12, <1>13, <1>14, <1>15, ClaimStepKeepsOthers DEF PartitionInv

-----------------------------------------------------------------------------
(* Sessions.                                                               *)

\* Steps that leave every claim and row alone, and commit marks or nothing.
LEMMA GroupStepKeepsInv ==
  ASSUME AnalyticsInv, AutoCommit \/ Rebalance \/ Terminate \/ Exit \/ UNCHANGED vars
  PROVE  AnalyticsInv'
<1>1. TypeOK
  BY DEF AnalyticsInv
<1>2. /\ mode' = "down" \/ mode' = mode \/ (mode = "consuming" /\ session < MaxSessions)
      /\ mode' \in {"consuming", "rebalancing", "stopping", "down"}
      /\ mode' # "consuming" => mode # "consuming" \/ session < MaxSessions
      /\ mode' # "down" => mode # "down"
      /\ committed' = committed \/ committed' = marked
      /\ UNCHANGED <<session, claim, closing, next, pending, marked, rows, acked, dropped, faults>>
  BY <1>1 DEF AutoCommit, Rebalance, Terminate, EndSession, Exit, vars, claimVars, historyVars, TypeOK
<1>3. TypeOK'
  BY <1>1, <1>2 DEF TypeOK
<1>4. ASSUME NEW p \in Partitions PROVE PartitionInv(p)'
  <2>1. PartitionInv(p) /\ rows' \in [Messages -> Nat]
    BY <1>3 DEF AnalyticsInv, TypeOK
  <2>2. QED
    BY <1>1, <1>2, <2>1, PartitionKept
<1>5. QED
  BY <1>2, <1>3, <1>4 DEF AnalyticsInv

\* A crash may store batches being inserted: a row each that the session has
\* not added yet, and that the process does not know of.
LEMMA CrashKeepsInv ==
  ASSUME AnalyticsInv, Crash
  PROVE  AnalyticsInv'
<1>1. TypeOK
  BY DEF AnalyticsInv
<1>2. /\ mode # "down" /\ session < MaxSessions /\ mode' = "down"
      /\ faults < MaxFaults /\ faults' = faults + 1
      /\ UNCHANGED <<session, claim, closing, next, pending, marked, committed, acked, dropped>>
  BY DEF Crash, Live, Fault, claimVars, historyVars
<1>3. PICK stored \in SUBSET {p \in Partitions : claim[p] = "insert"} :
        rows' = [m \in Messages |-> IF \E p \in stored : m \in GoodRows(p)
                                      THEN rows[m] + 1 ELSE rows[m]]
  BY DEF Crash
<1> DEFINE S == {m \in Messages : \E p \in stored : m \in GoodRows(p)}
<1>4. rows' = [m \in Messages |-> IF m \in S THEN rows[m] + 1 ELSE rows[m]]
  BY <1>3
<1>5. /\ rows' \in [Messages -> Nat]
      /\ \A m \in Messages : rows[m] <= rows'[m] /\ rows'[m] <= rows[m] + 1
      /\ \A m \in Messages : m \notin S => rows'[m] = rows[m]
  <2> HIDE DEF S
  <2> QED
    BY <1>1, <1>4, AddRows
<1>6. \A p \in Partitions, n \in Offsets :
        <<p, n>> \in S => n \in Batch(p) /\ claim[p] = "insert"
  BY <1>3, GoodRowsOf
<1> HIDE DEF S
<1>7. TypeOK'
  <2>1. faults' \in 0 .. MaxFaults
    BY <1>1, <1>2, AnalyticsAssumption DEF TypeOK
  <2>2. QED
    BY <1>1, <1>2, <1>5, <2>1 DEF TypeOK
<1>8. ASSUME NEW p \in Partitions PROVE PartitionInv(p)'
  <2>1. PartitionInv(p)
    BY DEF AnalyticsInv
  <2>2. /\ Length \in Nat /\ next[p] \in 0 .. Length /\ next[p] \in Nat
        /\ marked[p] \in 0 .. Length
        /\ Batch(p) \subseteq Offsets /\ Offsets \subseteq Nat /\ session \in Nat
        /\ \A k \in Offsets : <<p, k>> \in Messages /\ rows[<<p, k>>] \in Nat /\ k \in Nat
    BY <1>1, ClaimTypes
  <2>3. Batch(p)' = Batch(p)
    BY <1>2 DEF Batch
  <2>4. \A n \in Offsets : rows[<<p, n>>] > 0 => rows'[<<p, n>>] > 0
    <3> TAKE n \in Offsets
    <3>1. rows[<<p, n>>] <= rows'[<<p, n>>] /\ rows'[<<p, n>>] \in Nat /\ rows[<<p, n>>] \in Nat
      BY <2>2, <1>5
    <3>2. QED
      BY <3>1
  <2>5. BatchInv(p)' /\ BehindInv(p)'
    BY <1>2, <2>1, <2>3 DEF PartitionInv, BatchInv, BehindInv
  <2>6. StoredInv(p)'
    BY <1>2, <2>1, <2>2, <2>3, <2>4 DEF PartitionInv, StoredInv
  <2>7. RowsInv(p)'
    <3>1. ASSUME NEW n \in Offsets PROVE rows'[<<p, n>>] <= session
      <4>1. <<p, n>> \in Messages /\ rows[<<p, n>>] \in Nat
        BY <2>2
      <4>2. rows'[<<p, n>>] <= rows[<<p, n>>] + 1 /\ rows'[<<p, n>>] \in Nat
        BY <4>1, <1>5
      <4>3. CASE <<p, n>> \in S
        <5>1. rows[<<p, n>>] < session
          BY <4>3, <1>2, <1>6, <2>1 DEF PartitionInv, RowsInv, Fresh
        <5>2. QED
          BY <4>1, <4>2, <5>1, <2>2
      <4>4. CASE <<p, n>> \notin S
        BY <4>1, <4>4, <1>5, <2>1 DEF PartitionInv, RowsInv
      <4>5. QED
        BY <4>3, <4>4
    <3>2. \A n \in Offsets : ~Fresh(p, n)'
      BY <1>2 DEF Fresh
    <3>3. QED
      BY <1>2, <3>1, <3>2 DEF RowsInv
  <2>8. DoneInv(p)'
    <3>1. \A n \in Offsets : Done(p, n) => Done(p, n)'
      BY <1>2, <2>4 DEF Done
    <3>2. \A n \in 0 .. next[p] - 1 : n \in Offsets
      BY <2>2 DEF Offsets
    <3>3. \A n \in 0 .. marked[p] - 1 : n \in Offsets
      BY <2>2 DEF Offsets
    <3>4. QED
      BY <1>2, <2>1, <2>3, <3>1, <3>2, <3>3 DEF PartitionInv, DoneInv
  <2>9. QED
    BY <2>5, <2>6, <2>7, <2>8 DEF PartitionInv
<1>9. QED
  BY <1>2, <1>7, <1>8 DEF AnalyticsInv

\* A session starts at offsets past done messages only, and may add a row of
\* its own to each message.
LEMMA StartKeepsInv ==
  ASSUME AnalyticsInv, NewSession \/ Restart
  PROVE  AnalyticsInv'
<1>1. TypeOK
  BY DEF AnalyticsInv
<1>2. PICK offsets \in {marked, committed} :
        /\ mode # "consuming" /\ mode' = "consuming"
        /\ session' = session + 1
        /\ claim' = [p \in Partitions |-> "loop"]
        /\ closing' = {}
        /\ next' = offsets /\ marked' = offsets /\ committed' = offsets
        /\ pending' = [p \in Partitions |-> << >>]
        /\ UNCHANGED <<rows, acked, dropped, faults>>
  BY DEF NewSession, Restart, StartSession, historyVars
<1>3. offsets \in [Partitions -> 0 .. Length]
  BY <1>1 DEF TypeOK
<1>4. session < MaxSessions /\ session \in Nat /\ session' \in 1 .. MaxSessions
  <2>1. session < MaxSessions /\ session \in 1 .. MaxSessions
    BY <1>1, <1>2 DEF AnalyticsInv, TypeOK
  <2>2. QED
    BY <1>2, <2>1, AnalyticsAssumption
<1>5. TypeOK'
  <2>1. /\ claim' \in [Partitions -> {"loop", "insert", "mark", "returned"}]
        /\ pending' \in [Partitions -> Seq(Offsets)]
    BY <1>2
  <2>2. \A q \in Partitions :
          /\ Len(pending'[q]) <= BatchMaxSize
          /\ claim'[q] = "loop" => Len(pending'[q]) < BatchMaxSize
          /\ claim'[q] = "insert" => pending'[q] # << >>
    BY <1>2, EmptyBatch, AnalyticsAssumption
  <2>3. QED
    BY <1>1, <1>2, <1>3, <1>4, <2>1, <2>2 DEF TypeOK
<1>6. ASSUME NEW p \in Partitions PROVE PartitionInv(p)'
  <2>1. PartitionInv(p)
    BY DEF AnalyticsInv
  <2>2. /\ claim'[p] = "loop" /\ pending'[p] = << >>
        /\ next'[p] = offsets[p] /\ marked'[p] = offsets[p] /\ committed'[p] = offsets[p]
    BY <1>2
  <2>3. Batch(p)' = {}
    BY <2>2, EmptyBatch DEF Batch, Elements
  <2>4. /\ Length \in Nat /\ marked[p] \in 0 .. Length /\ committed[p] \in 0 .. Length
        /\ \A k \in Offsets : rows[<<p, k>>] \in Nat
    BY <1>1, ClaimTypes
  <2>5. offsets[p] \in 0 .. Length /\ offsets[p] \in Nat /\ offsets[p] <= marked[p]
    BY <1>2, <1>3, <2>1, <2>4 DEF PartitionInv, BatchInv
  <2>6. BatchInv(p)' /\ BehindInv(p)'
    BY <2>2, <2>3, <2>5, EmptyBatch DEF BatchInv, BehindInv
  <2>7. StoredInv(p)'
    BY <1>2, <2>1, <2>3 DEF PartitionInv, StoredInv
  <2>8. RowsInv(p)'
    <3>1. \A n \in Offsets : rows[<<p, n>>] <= session /\ rows[<<p, n>>] \in Nat
      BY <2>1, <2>4 DEF PartitionInv, RowsInv
    <3>2. \A n \in Offsets : rows'[<<p, n>>] < session' /\ rows'[<<p, n>>] <= session'
      BY <1>2, <1>4, <3>1
    <3>3. QED
      BY <3>2 DEF RowsInv
  <2>9. DoneInv(p)'
    <3>1. \A n \in 0 .. offsets[p] - 1 : n \in 0 .. marked[p] - 1
      BY <2>4, <2>5
    <3>2. \A n \in 0 .. offsets[p] - 1 : Done(p, n)
      BY <2>1, <3>1 DEF PartitionInv, DoneInv
    <3>3. \A n \in 0 .. offsets[p] - 1 : Done(p, n)'
      BY <1>2, <3>2 DEF Done
    <3>4. QED
      BY <2>2, <3>3 DEF DoneInv
  <2>10. QED
    BY <2>6, <2>7, <2>8, <2>9 DEF PartitionInv
<1>7. QED
  BY <1>2, <1>5, <1>6 DEF AnalyticsInv

-----------------------------------------------------------------------------
(* The theorems.                                                           *)

\* The first session of the group satisfies the invariant.
THEOREM InitInv == Init => AnalyticsInv
<1> SUFFICES ASSUME Init PROVE AnalyticsInv
  OBVIOUS
<1> USE DEF Init
<1>1. TypeOK
  <2>1. 0 \in 0 .. Length /\ 1 \in 1 .. MaxSessions /\ 0 \in 0 .. MaxFaults /\ 0 < BatchMaxSize
    BY AnalyticsAssumption
  <2>2. /\ claim \in [Partitions -> {"loop", "insert", "mark", "returned"}]
        /\ next \in [Partitions -> 0 .. Length]
        /\ marked \in [Partitions -> 0 .. Length]
        /\ committed \in [Partitions -> 0 .. Length]
        /\ rows \in [Messages -> Nat]
    BY <2>1
  <2>3. pending \in [Partitions -> Seq(Offsets)]
    OBVIOUS
  <2>4. \A p \in Partitions :
          /\ Len(pending[p]) <= BatchMaxSize
          /\ claim[p] = "loop" => Len(pending[p]) < BatchMaxSize
          /\ claim[p] = "insert" => pending[p] # << >>
    <3> TAKE p \in Partitions
    <3>1. Len(pending[p]) = 0 /\ claim[p] = "loop"
      BY EmptyBatch
    <3>2. QED
      BY <3>1, AnalyticsAssumption
  <2>5. QED
    BY <2>1, <2>2, <2>3, <2>4 DEF TypeOK
<1>2. ASSUME NEW p \in Partitions PROVE PartitionInv(p)
  <2>1. Batch(p) = {} /\ Sorted(pending[p])
    BY EmptyBatch DEF Batch, Elements
  <2>2. BatchInv(p) /\ StoredInv(p) /\ BehindInv(p) /\ DoneInv(p)
    BY <2>1 DEF BatchInv, StoredInv, BehindInv, DoneInv
  <2>3. RowsInv(p)
    BY DEF RowsInv, Messages
  <2>4. QED
    BY <2>2, <2>3 DEF PartitionInv
<1>3. QED
  BY <1>1, <1>2 DEF AnalyticsInv

\* Every step of the consumer keeps the invariant.
THEOREM NextKeepsInv == AnalyticsInv /\ [Next]_vars => AnalyticsInv'
<1> SUFFICES ASSUME AnalyticsInv, [Next]_vars PROVE AnalyticsInv'
  OBVIOUS
<1>1. ASSUME NEW p \in Partitions, ClaimStep(p) PROVE AnalyticsInv'
  <2>1. CASE Skip(p)
    BY <2>1, SkipKeepsInv
  <2>2. CASE Collect(p)
    BY <2>2, CollectKeepsInv
  <2>3. CASE Tick(p) \/ ReturnOnClosed(p)
    BY <2>3, FlushBeginsKeepsInv
  <2>4. CASE ReturnOnDone(p)
    BY <2>4, ReturnOnDoneKeepsInv
  <2>5. CASE FlushStep(p)
    BY <2>5, InsertKeepsInv, MarkKeepsInv, DropBatchKeepsInv DEF FlushStep
  <2>6. QED
    BY <1>1, <2>1, <2>2, <2>3, <2>4, <2>5 DEF ClaimStep
<1>2. CASE AutoCommit \/ Rebalance \/ Terminate \/ Exit \/ UNCHANGED vars
  BY <1>2, GroupStepKeepsInv
<1>3. CASE NewSession \/ Restart
  BY <1>3, StartKeepsInv
<1>4. CASE Crash
  BY <1>4, CrashKeepsInv
<1>5. QED
  BY <1>1, <1>2, <1>3, <1>4 DEF Next

\* The invariant holds of every behaviour.
THEOREM AnalyticsInvariant == Spec => []AnalyticsInv
BY InitInv, NextKeepsInv, PTL DEF Spec

\* Every variable keeps its type, and a batch its size.
THEOREM TypeCorrect == Spec => []TypeOK
BY AnalyticsInvariant, PTL DEF AnalyticsInv

\* A message is marked only when its row is in ClickHouse, or it could not be
\* decoded: for any batches, rebalances, crashes and failed inserts.
THEOREM MarkedMeansStored == Spec => []MarkedIsStored
<1>1. AnalyticsInv => MarkedIsStored
  <2> SUFFICES ASSUME AnalyticsInv, NEW m \in acked
               PROVE  Kind[m] = "malformed" \/ rows[m] > 0
    BY DEF MarkedIsStored
  <2>1. PICK p \in Partitions, n \in Offsets : m = <<p, n>>
    BY DEF AnalyticsInv, TypeOK, Messages
  <2>2. StoredInv(p)
    BY DEF AnalyticsInv, PartitionInv
  <2>3. QED
    BY <2>1, <2>2 DEF StoredInv, KindOf
<1>2. QED
  BY <1>1, AnalyticsInvariant, PTL

\* A message has at most one row for each session that has been: duplicates
\* come from redelivery alone, never from the batch, the ticker or a failure.
THEOREM OneRowEachSession == Spec => []OneRowPerSession
<1>1. AnalyticsInv => OneRowPerSession
  <2> SUFFICES ASSUME AnalyticsInv, NEW m \in Messages
               PROVE  rows[m] <= session
    BY DEF OneRowPerSession
  <2>1. PICK p \in Partitions, n \in Offsets : m = <<p, n>>
    BY DEF Messages
  <2>2. RowsInv(p)
    BY DEF AnalyticsInv, PartitionInv
  <2>3. QED
    BY <2>1, <2>2 DEF RowsInv
<1>2. QED
  BY <1>1, AnalyticsInvariant, PTL

\* Where nothing malformed is in a partition, its mark stays behind its batch.
THEOREM MarkBehindBatch == Spec => []MarkStaysBehindBatch
<1>1. AnalyticsInv => MarkStaysBehindBatch
  BY DEF AnalyticsInv, PartitionInv, BehindInv, MarkStaysBehindBatch
<1>2. QED
  BY <1>1, AnalyticsInvariant, PTL

-----------------------------------------------------------------------------
(* The contract.                                                           *)

\* What is done is what the contract calls settled.
LEMMA DoneIsSettled ==
  ASSUME NEW p \in Partitions, NEW n \in Offsets, Done(p, n)
  PROVE  Contract!Settled(<<p, n>>)
<1>1. <<p, n>> \in Messages /\ <<p, n>>[1] = p /\ <<p, n>>[2] = n
  BY DEF Messages
<1>2. CASE rows[<<p, n>>] > 0
  BY <1>2 DEF Contract!Settled
<1>3. CASE <<p, n>> \in dropped
  BY <1>3 DEF Contract!Settled, Explained
<1>4. CASE \E k \in n .. Length - 1 : KindOf(p, k) = "malformed" /\ <<p, k>> \in acked
  BY <1>1, <1>4 DEF Contract!Settled, Explained
<1>5. QED
  BY <1>2, <1>3, <1>4 DEF Done

\* A step either settles messages and commits nothing, or commits marks at
\* most and settles nothing.
LEMMA StepShape ==
  ASSUME AnalyticsInv, [Next]_vars
  PROVE  \/ /\ committed' = committed
            /\ \A m \in Messages : rows'[m] \in {rows[m], rows[m] + 1}
            /\ acked \subseteq acked' /\ dropped \subseteq dropped'
         \/ /\ committed' = committed \/ committed' = marked
            /\ UNCHANGED <<rows, acked, dropped>>
<1>1. TypeOK
  BY DEF AnalyticsInv
<1>2. ASSUME NEW p \in Partitions,
             Skip(p) \/ Collect(p) \/ Tick(p) \/ ReturnOnDone(p) \/ ReturnOnClosed(p) \/ Mark(p)
      PROVE  committed' = committed /\ rows' = rows /\ acked \subseteq acked' /\ dropped' = dropped
  BY <1>2 DEF Skip, Collect, Tick, ReturnOnDone, ReturnOnClosed, Mark, MarkMessage, historyVars
<1>3. ASSUME NEW p \in Partitions, Insert(p) \/ InsertFails(p) \/ InsertSkips(p)
      PROVE  /\ committed' = committed /\ acked' = acked /\ dropped \subseteq dropped'
             /\ \A m \in Messages : rows'[m] \in {rows[m], rows[m] + 1}
  <2>1. committed' = committed /\ acked' = acked /\ dropped \subseteq dropped'
    BY <1>3 DEF Insert, InsertFails, InsertSkips, DropBatch, historyVars
  <2>2. \E S : rows' = [m \in Messages |-> IF m \in S THEN rows[m] + 1 ELSE rows[m]]
    BY <1>3 DEF Insert, InsertFails, InsertSkips
  <2>3. QED
    BY <2>1, <2>2
<1>4. CASE Crash
  BY <1>4 DEF Crash, historyVars
<1>5. CASE AutoCommit \/ Rebalance \/ Terminate \/ NewSession \/ Exit \/ Restart \/ UNCHANGED vars
  BY <1>5 DEF AutoCommit, Rebalance, Terminate, EndSession, NewSession, Exit, Restart,
              StartSession, vars, claimVars, historyVars
<1>6. QED
  BY <1>2, <1>3, <1>4, <1>5 DEF Next, ClaimStep, FlushStep

\* Every step of the consumer is a step of the contract.
LEMMA NextRefines ==
  ASSUME AnalyticsInv, AnalyticsInv', [Next]_vars
  PROVE  [Contract!Next]_(Contract!feedVars)
<1>1. TypeOK /\ TypeOK'
  BY DEF AnalyticsInv
<1>2. CASE /\ committed' = committed
           /\ \A m \in Messages : rows'[m] \in {rows[m], rows[m] + 1}
           /\ acked \subseteq acked' /\ dropped \subseteq dropped'
  <2>1. DOMAIN rows' = Messages
    BY <1>1 DEF TypeOK
  <2>2. Explained \subseteq Explained' /\ Explained' \subseteq Messages
    BY <1>1, <1>2 DEF Explained, TypeOK
  <2>3. Contract!Settle
    BY <1>2, <2>1, <2>2 DEF Contract!Settle, Contract!Messages, Messages, Offsets
  <2>4. QED
    BY <2>3 DEF Contract!Next
<1>3. CASE /\ committed' = committed \/ committed' = marked
           /\ UNCHANGED <<rows, acked, dropped>>
  <2>1. UNCHANGED <<rows, Explained>>
    BY <1>3 DEF Explained
  <2>2. ASSUME NEW p \in Partitions
        PROVE  /\ committed'[p] \in committed[p] .. Length
               /\ \A n \in committed[p] .. committed'[p] - 1 : Contract!Settled(<<p, n>>)
    <3>1. /\ committed[p] \in 0 .. Length /\ marked[p] \in 0 .. Length /\ Length \in Nat
          /\ committed[p] <= marked[p]
          /\ committed'[p] = committed[p] \/ committed'[p] = marked[p]
      BY <1>1, <1>3, ClaimTypes DEF AnalyticsInv, PartitionInv, BatchInv
    <3>2. committed'[p] \in committed[p] .. Length
      BY <3>1
    <3>3. ASSUME NEW n \in committed[p] .. committed'[p] - 1
          PROVE  n \in Offsets /\ n \in 0 .. marked[p] - 1
      BY <3>1 DEF Offsets
    <3>4. \A n \in 0 .. marked[p] - 1 : Done(p, n)
      BY DEF AnalyticsInv, PartitionInv, DoneInv
    <3>5. QED
      BY <3>2, <3>3, <3>4, DoneIsSettled
  <2>3. Contract!Commit
    BY <2>1, <2>2 DEF Contract!Commit
  <2>4. QED
    BY <2>3 DEF Contract!Next
<1>4. QED
  BY <1>2, <1>3, StepShape

\* Safety half of ContractSpec: the group never commits past a message that
\* has no row and is not one of those explained, and its commits never go back.
THEOREM ImplementsContract == Spec => Contract!Init /\ [][Contract!Next]_(Contract!feedVars)
<1>1. Init => Contract!Init
  BY DEF Init, Contract!Init, Contract!Messages, Messages, Offsets, Explained
<1>2. QED
  BY <1>1, NextRefines, AnalyticsInvariant, PTL DEF Spec
=============================================================================
