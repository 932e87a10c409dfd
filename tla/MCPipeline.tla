----------------------------- MODULE MCPipeline -----------------------------
(* Instance of Pipeline: two payments, each with its key. *)
EXTENDS Pipeline

CONSTANTS pa, pb

MCPayments == {pa, pb}
MCKeyOf == [p \in MCPayments |-> p]
=============================================================================
