---------------------------- MODULE PaymentFeed ----------------------------
(***************************************************************************)
(* What payments-service promises its consumers, with no database, no      *)
(* relay and no failure in sight: a payment is accepted at most once per   *)
(* idempotency key, only accepted payments reach the topic, and every      *)
(* accepted payment reaches it at least once (possibly more often).        *)
(* Module Outbox implements it.                                            *)
(***************************************************************************)
EXTENDS Naturals

CONSTANTS
  Payments,   \* the payments clients may ask for
  KeyOf       \* the idempotency key of each of them

VARIABLES
  accepted,   \* the payments the service has committed to
  delivered   \* how many copies of its event each payment has on the topic

feedVars == <<accepted, delivered>>

Init ==
  /\ accepted = {}
  /\ delivered = [p \in Payments |-> 0]

Accept(p) ==
  /\ \A q \in accepted : KeyOf[q] # KeyOf[p]
  /\ accepted' = accepted \union {p}
  /\ UNCHANGED delivered

Deliver(p) ==
  /\ p \in accepted
  /\ delivered' = [delivered EXCEPT ![p] = @ + 1]
  /\ UNCHANGED accepted

FirstDelivery(p) == delivered[p] = 0 /\ Deliver(p)

Next == \E p \in Payments : Accept(p) \/ Deliver(p)

Spec ==
  /\ Init
  /\ [][Next]_feedVars
  /\ \A p \in Payments : WF_feedVars(FirstDelivery(p))
=============================================================================
