------------------------------ MODULE MCOutbox ------------------------------
(* Values for the constants of Outbox. *)
EXTENDS Outbox, TLC

CONSTANTS r1, r2, r3, k1, k2, t1

\* r1 and r2 are two attempts with one idempotency key; r3 has its own.
MCRequests == {r1, r2, r3}
MCKeys == {k1, k2}
MCKeyOf == (r1 :> k1) @@ (r2 :> k1) @@ (r3 :> k2)
\* The created_at of r1 and r3 are tied.
MCCreatedAt == (r1 :> 1) @@ (r2 :> 2) @@ (r3 :> 1)
MCTasks == {t1}
MCHome == [r \in MCRequests |-> t1]
=============================================================================
