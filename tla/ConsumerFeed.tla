---------------------------- MODULE ConsumerFeed ----------------------------
(***************************************************************************)
(* What a consuming service promises the next one, with no session, pool,  *)
(* batch or failure in sight: it records an outcome of a message (possibly *)
(* more than once), or gives the message up and says so; its group commits *)
(* past a message only after one of the two, and never goes back; and      *)
(* every message is settled in one of the two ways.                        *)
(* Modules Processor and AnalyticsConsumer implement it.                   *)
(***************************************************************************)
EXTENDS Naturals

CONSTANTS
  Partitions,  \* the partitions the group consumes
  Length       \* messages in each, at offsets 0 .. Length - 1

Messages == Partitions \X (0 .. Length - 1)

VARIABLES
  recorded,    \* copies of each message's outcome
  givenUp,     \* the messages the service gave up, for a cause it names
  committed    \* the offset of the group in each partition

feedVars == <<recorded, givenUp, committed>>

Settled(m) == recorded[m] > 0 \/ m \in givenUp

Init ==
  /\ recorded = [m \in Messages |-> 0]
  /\ givenUp = {}
  /\ committed = [p \in Partitions |-> 0]

\* Outcomes are recorded, at most one of each message in a step, or messages are
\* given up.
Settle ==
  /\ DOMAIN recorded' = Messages
  /\ \A m \in Messages : recorded'[m] \in {recorded[m], recorded[m] + 1}
  /\ givenUp \subseteq givenUp' /\ givenUp' \subseteq Messages
  /\ UNCHANGED committed

\* The group commits; what it commits past is settled.
Commit ==
  /\ \A p \in Partitions :
       /\ committed'[p] \in committed[p] .. Length
       /\ \A n \in committed[p] .. committed'[p] - 1 : Settled(<<p, n>>)
  /\ UNCHANGED <<recorded, givenUp>>

Next == Settle \/ Commit

Spec ==
  /\ Init
  /\ [][Next]_feedVars
  /\ \A m \in Messages : <>Settled(m)
=============================================================================
