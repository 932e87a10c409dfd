-------------------------- MODULE MCOutboxTwoRelays --------------------------
(* Outbox with the two tasks of the prod environment and no fault at all.  *)
EXTENDS Outbox, TLC

CONSTANTS r1, r2, k1, k2, t1, t2

MCRequests == {r1, r2}
MCKeys == {k1, k2}
MCKeyOf == (r1 :> k1) @@ (r2 :> k2)
MCCreatedAt == (r1 :> 1) @@ (r2 :> 2)
MCTasks == {t1, t2}
MCHome == (r1 :> t1) @@ (r2 :> t2)
=============================================================================
